---- MODULE Spec2Model ----
(***************************************************************************)
(* go-laravel-long-polling: the fan-out registry (redis.Subscriber), the   *)
(* bounded upstream pool (core.LaravelUpstreamPool) and the long-poll      *)
(* handler (http.Handlers.GetUpdates), as interleaved goroutines.          *)
(***************************************************************************)
EXTENDS Integers, Sequences, FiniteSets, TLC

(* ------------------------------ bounds -------------------------------- *)

\* inbound /getUpdates requests served during a run
MaxRequests == 2
\* messages read from the Redis pub/sub feed during a run
MaxMsgs == 1
\* LARAVEL_UPSTREAM_WORKERS of the run: the capacity of the semaphore
Workers == 1
\* messages of one channel read from the feed during a burst
MaxBurst == 11
\* subscriber.Start calls the supervisor makes during a run
MaxStarts == 9
\* limits are drawn from within LimitSpan of 0 and of the configured maximum
LimitSpan == 2

(* ------------------------- program constants -------------------------- *)

\* make(chan EventNotification, 10)
QueueCap == 10
\* MAX_LIMIT
MaxLimit == 100
\* c.DefaultQuery("limit", "100") and the fallback limit = 100
DefaultLimit == 100

\* backoff := time.Second and maxBackoff := time.Minute, in seconds
BaseBackoff == 1
MaxBackoff == 60

StatusOK == 200
StatusBadRequest == 400
StatusUnauthorized == 401
StatusInternalServerError == 500

(* ------------------------------ universe ------------------------------ *)

\* goroutines serving inbound requests (one gin handler call each at a time)
Polls == {1, 2}
Channels == {"A", "B"}
\* event pages the backend may answer with
EventLists == {<<>>, <<5, 6, 7>>}
NoPanic == ""

VARIABLES
    handlers,   \* Subscriber.handlers: map[string][]chan EventNotification
    chans,      \* every channel made so far: [buf, closed], indexed by identity
    mu,         \* Subscriber.mu: sync.RWMutex
    semaphore,  \* len(LaravelUpstreamPool.semaphore)
    poll,       \* per request goroutine: position and locals of GetUpdates
    feed,       \* the goroutine in Subscriber.Start / handleMessage
    started,    \* requests accepted so far
    panicked,   \* the runtime panic that ended the process, if any
    sup         \* the supervisor goroutine of registerHooks and its Start call

vars == <<handlers, chans, mu, semaphore, poll, feed, started, panicked, sup>>

(* -------------------------- strings and parsing ----------------------- *)

Digits == {"0", "1", "2", "3", "4", "5", "6", "7", "8", "9"}

DigitVal(d) ==
    CASE d = "0" -> 0 [] d = "1" -> 1 [] d = "2" -> 2 [] d = "3" -> 3
      [] d = "4" -> 4 [] d = "5" -> 5 [] d = "6" -> 6 [] d = "7" -> 7
      [] d = "8" -> 8 [] d = "9" -> 9

RECURSIVE DigitsVal(_)
DigitsVal(s) ==
    IF s = <<>> THEN 0
    ELSE 10 * DigitsVal(SubSeq(s, 1, Len(s) - 1)) + DigitVal(s[Len(s)])

AllDigits(s) == s # <<>> /\ \A i \in 1..Len(s) : s[i] \in Digits

\* strconv.Atoi / strconv.ParseInt(s, 10, 64) on short strings: an optional
\* sign followed by at least one decimal digit, anything else is an error
Atoi(s) ==
    IF s # <<>> /\ s[1] \in {"-", "+"}
    THEN IF AllDigits(Tail(s))
         THEN [err |-> FALSE,
               val |-> IF s[1] = "-" THEN 0 - DigitsVal(Tail(s)) ELSE DigitsVal(Tail(s))]
         ELSE [err |-> TRUE, val |-> 0]
    ELSE IF AllDigits(s)
         THEN [err |-> FALSE, val |-> DigitsVal(s)]
         ELSE [err |-> TRUE, val |-> 0]

\* gin's c.Query and c.DefaultQuery on a query given as a partial function
Query(q, key) == IF key \in DOMAIN q THEN q[key] ELSE ""
DefaultQuery(q, key, def) == IF key \in DOMAIN q THEN q[key] ELSE def

\* JWTService.ValidateToken: the channel a well-signed, unexpired token names
ValidateToken(tokenString) ==
    IF tokenString \in Channels
    THEN [err |-> FALSE, channelID |-> tokenString]
    ELSE [err |-> TRUE, channelID |-> ""]

\* offset as GetUpdates derives it
ParseOffset(q) ==
    LET r == Atoi(DefaultQuery(q, "offset", <<"0">>))
    IN  IF r.err THEN 0 ELSE r.val

\* limit as GetUpdates derives it
ParseLimit(q) ==
    LET r == Atoi(DefaultQuery(q, "limit", <<"1", "0", "0">>))
        l == IF r.err \/ r.val < 1 THEN DefaultLimit ELSE r.val
    IN  IF l > MaxLimit THEN MaxLimit ELSE l

\* GetEvents without lines 393-395: the limit goes to the backend as given
ClampLimitNever(limit) == limit

\* limit as GetEvents sends it to the backend
ClampLimit(limit) == IF limit > MaxLimit THEN MaxLimit ELSE limit

\* the query strings of the inbound requests
Queries ==
    { [token |-> ""],
      [token |-> "bad"],
      [token |-> "A", offset |-> <<"7">>, limit |-> <<"5">>],
      [token |-> "B", offset |-> <<"x">>, limit |-> <<"5", "0", "0">>] }

(* ------------------------------ helpers ------------------------------- *)

\* a Go map read: the zero value (a nil slice) for a missing key
Lookup(h, c) == IF c \in DOMAIN h THEN h[c] ELSE <<>>
MapSet(h, c, v) == [k \in DOMAIN h \cup {c} |-> IF k = c THEN v ELSE h[k]]
MapDelete(h, c) == [k \in DOMAIN h \ {c} |-> h[k]]

\* append(s[:i], s[i+1:]...) with i counted from 1
RemoveAt(s, i) == SubSeq(s, 1, i - 1) \o SubSeq(s, i + 1, Len(s))

\* the first index the range loop of Unsubscribe stops at, 0 when it finds none
IndexOf(s, x) ==
    IF \E i \in 1..Len(s) : s[i] = x
    THEN CHOOSE i \in 1..Len(s) : s[i] = x /\ \A j \in 1..(i - 1) : s[j] # x
    ELSE 0

NoResponse == [status |-> 0, error |-> "", events |-> <<>>]
JSONError(code, msg) == [status |-> code, error |-> msg, events |-> <<>>]
JSONEvents(evs) == [status |-> StatusOK, error |-> "", events |-> evs]

IdlePoll ==
    [pc |-> "idle", channelID |-> "", offset |-> 0, limit |-> 0,
     notifyCh |-> 0, timer |-> FALSE, expired |-> FALSE, cancelled |-> FALSE,
     calls |-> <<>>, reqs |-> <<>>, results |-> <<>>, taken |-> <<>>,
     expiredAtTake |-> FALSE, response |-> NoResponse]

NoNotification == [channel_id |-> "", event_id |-> 0]

(* ------------------------------ RWMutex ------------------------------- *)

\* Lock that does not wait for the readers (a plain Mutex beside RLock)
CanLockIgnoringReaders == ~mu.writer

\* sync.RWMutex: Lock waits for the writer and for every reader to leave
CanLock == ~mu.writer /\ mu.readers = 0
\* RLock waits for the writer to leave
CanRLock == ~mu.writer

(* ------------------------------ registry ------------------------------ *)

\* Subscribe, the registry after s.handlers[channelID] = append(..., ch)
SubscribeHandlers(h, channelID, ch) ==
    MapSet(h, channelID, Append(Lookup(h, channelID), ch))

\* a removal that keeps the queue: append(handlers[:i], handlers[i:]...)
UnsubscribeHandlersKeepsQueue(h, channelID, ch) == h

\* a removal that drops the whole entry of the channel
UnsubscribeHandlersDropsChannel(h, channelID, ch) ==
    IF IndexOf(Lookup(h, channelID), ch) > 0 THEN MapDelete(h, channelID) ELSE h

\* Unsubscribe without lines 109-111: an entry left empty stays in the map
UnsubscribeHandlersKeepsEntry(h, channelID, ch) ==
    LET hs == Lookup(h, channelID)
        i == IndexOf(hs, ch)
    IN  IF i > 0 THEN MapSet(h, channelID, RemoveAt(hs, i)) ELSE h

\* Unsubscribe, the registry after the removal loop and the empty-entry delete
UnsubscribeHandlers(h, channelID, ch) ==
    LET hs == Lookup(h, channelID)
        i == IndexOf(hs, ch)
        h1 == IF i > 0 THEN MapSet(h, channelID, RemoveAt(hs, i)) ELSE h
    IN  IF Len(Lookup(h1, channelID)) = 0 THEN MapDelete(h1, channelID) ELSE h1

\* an Unsubscribe that closes ch whether or not the loop finds it
UnsubscribeFindsAlways(h, channelID, ch) == TRUE

\* Unsubscribe, whether the loop finds ch and so closes it
UnsubscribeFinds(h, channelID, ch) == IndexOf(Lookup(h, channelID), ch) > 0

\* a sweep that stops after the first listener
SweepTargetsFirstOnly(h, notification) ==
    LET hs == Lookup(h, notification.channel_id)
    IN  IF hs = <<>> THEN <<>> ELSE <<hs[1]>>

\* a sweep over the listeners of every channel
SweepTargetsEveryChannel(h, notification) ==
    Lookup(h, "A") \o Lookup(h, "B")

\* the handlers a delivery sweep iterates over
SweepTargets(h, notification) == Lookup(h, notification.channel_id)

\* a full queue that makes room by dropping its oldest notification
TrySendDropsOldest(c, notification) ==
    IF Len(c.buf) < QueueCap
    THEN [c EXCEPT !.buf = Append(@, notification)]
    ELSE [c EXCEPT !.buf = Append(Tail(@), notification)]

\* a plain send, handler <- notification, which waits for room in the queue
SendReadyWhenRoom(c) == Len(c.buf) < QueueCap

\* select { case handler <- notification: default: } never waits: one of its
\* two cases can always be taken
SendReady(c) == TRUE

\* select { case handler <- notification: default: } on an open channel
TrySend(c, notification) ==
    IF Len(c.buf) < QueueCap
    THEN [c EXCEPT !.buf = Append(@, notification)]
    ELSE c

\* close(ch) as the last act of the only goroutine that receives from ch:
\* what is still buffered can never be received and is dropped with it
Close(c) == [buf |-> <<>>, closed |-> TRUE]

\* the feed goroutine between two messages, n messages read so far; delivered
\* and dropped list the queues the running sweep enqueued on and found full
IdleFeed(n) ==
    [pc |-> "recv", notification |-> NoNotification, handlers |-> <<>>,
     i |-> 0, delivered |-> <<>>, dropped |-> <<>>, msgs |-> n]

(* ----------------------------- supervisor ----------------------------- *)

\* the supervisor goroutine before its first subscriber.Start call. ctx is
\* the context of the running Start call, cancel the context s.cancel cancels
\* (0 for nil), canceled the contexts canceled so far; fails counts the failed
\* attempts since the last Start call that connected, lastReturn and waited
\* tell how the last Start call ended and whether a sleep followed it
Unstarted ==
    [pc |-> "call", backoff |-> BaseBackoff, starts |-> 0, ctx |-> 0,
     cancel |-> 0, canceled |-> {}, stopCalled |-> FALSE,
     fails |-> 0, lastReturn |-> "none", waited |-> FALSE]

\* the service is up: the first Start call has stored its cancel function,
\* connected and reads the feed
Connected == [Unstarted EXCEPT !.pc = "loop", !.starts = 1, !.ctx = 1, !.cancel = 1]

(* ------------------------------- Init --------------------------------- *)

Init ==
    /\ handlers = <<>>
    /\ chans = <<>>
    /\ mu = [writer |-> FALSE, readers |-> 0]
    /\ semaphore = 0
    /\ poll = [p \in Polls |-> IdlePoll]
    /\ feed = IdleFeed(0)
    /\ started = 0
    /\ panicked = NoPanic
    /\ sup = Connected

\* a runtime panic in a goroutine ends the process: nothing runs after it
Running == panicked = NoPanic

(* --------------------------- upstream pool ---------------------------- *)

\* what GetEvents hands back: a nil error with the decoded events, or an error
Fetched(evs) == [err |-> "", events |-> evs]
FetchError(e) == [err |-> e, events |-> <<>>]

\* the errors of httpClient.Do, of the status check and of the JSON decoder
BackendErrors == {"execute", "status", "decode"}

\* goroutines inside GetEvents past the semaphore send: the deferred
\* receive from the semaphore is pending for each of them
HoldsPermit(p) == poll[p].pc \in {"send", "http"}
\* goroutines inside httpClient.Do
InFlight == {p \in Polls : poll[p].pc = "http"}
\* goroutines inside GetEvents
InGetEvents(p) == poll[p].pc \in {"acquire", "send", "http"}

\* a send that is always ready (no capacity limit on the semaphore)
CanAcquireUnbounded == TRUE

\* case p.semaphore <- struct{}{}: ready while the buffer has room
CanAcquire == semaphore < Workers

\* a release deferred before the select: it runs on the cancellation return too
ReleaseAlways(pc, sem) == sem - 1

\* a release placed after the request was built instead of deferred
ReleaseAfterBuild(pc, sem) == IF pc = "http" THEN sem - 1 ELSE sem

\* defer func() { <-p.semaphore }() when GetEvents returns from pc
Release(pc, sem) == IF pc \in {"send", "http"} THEN sem - 1 ELSE sem

(* --------------------------- poll coordinator ------------------------- *)

\* no short-circuit: every successful first fetch goes on to subscribe
AfterImmediateAlwaysWaits(pr, r) ==
    IF r.err # ""
    THEN [pr EXCEPT !.pc = "return",
                    !.response = JSONError(StatusInternalServerError, "Failed to fetch events")]
    ELSE [pr EXCEPT !.pc = "lock_sub"]

\* GetUpdates after its first GetEvents call returned r (lines 128-148)
AfterImmediate(pr, r) ==
    IF r.err # ""
    THEN [pr EXCEPT !.pc = "return",
                    !.response = JSONError(StatusInternalServerError, "Failed to fetch events")]
    ELSE IF Len(r.events) > 0
    THEN [pr EXCEPT !.pc = "return", !.response = JSONEvents(r.events)]
    ELSE [pr EXCEPT !.pc = "lock_sub"]

\* Unsubscribe called on the success path only instead of deferred
AfterRefetchLeaks(pr, r) ==
    IF r.err # ""
    THEN [pr EXCEPT !.pc = "return",
                    !.response = JSONError(StatusInternalServerError, "Failed to fetch events")]
    ELSE [pr EXCEPT !.pc = "lock_unsub", !.response = JSONEvents(r.events)]

\* a failed refetch answered like an empty page
AfterRefetchSwallows(pr, r) ==
    [pr EXCEPT !.pc = "lock_unsub", !.response = JSONEvents(r.events)]

\* GetUpdates after the GetEvents call of the notification branch returned r
\* (lines 169-184); the deferred cancel and Unsubscribe follow
AfterRefetch(pr, r) ==
    IF r.err # ""
    THEN [pr EXCEPT !.pc = "lock_unsub",
                    !.response = JSONError(StatusInternalServerError, "Failed to fetch events")]
    ELSE [pr EXCEPT !.pc = "lock_unsub", !.response = JSONEvents(r.events)]

\* GetEvents returns r to GetUpdates, which goes on from the call site
Returned(pr, r) ==
    LET pr1 == [pr EXCEPT !.results = Append(@, r)]
    IN  IF Len(pr.calls) = 1 THEN AfterImmediate(pr1, r) ELSE AfterRefetch(pr1, r)

\* the goroutine of a request after GetUpdates returned: its locals are gone,
\* the response it wrote stays with the client
Finished(pr) == [IdlePoll EXCEPT !.pc = "done", !.response = pr.response]

\* the arguments of a GetEvents call made by GetUpdates
FetchArgs(pr) == [channelID |-> pr.channelID, offset |-> pr.offset, limit |-> pr.limit]

\* a goroutine that serves no request at the moment
Free(p) == poll[p].pc \in {"idle", "done"}

\* a refetch that asks for the events after the notified one
RefetchArgsFromEvent(pr, notification) ==
    [FetchArgs(pr) EXCEPT !.offset = notification.event_id]

\* the arguments of the GetEvents call that follows a notification (line 169)
RefetchArgs(pr, notification) == FetchArgs(pr)

\* GetUpdates from its entry to the first GetEvents call (lines 85-127); the
\* server runs the handler on a free goroutine

GetUpdates(p, q) ==
    /\ Running
    /\ Free(p)
    /\ started < MaxRequests
    /\ started' = started + 1
    /\ LET v == ValidateToken(Query(q, "token"))
           pr == [IdlePoll EXCEPT !.channelID = v.channelID,
                                  !.offset = ParseOffset(q),
                                  !.limit = ParseLimit(q)]
       IN  poll' = [poll EXCEPT ![p] =
             IF Query(q, "token") = ""
             THEN [IdlePoll EXCEPT !.pc = "return",
                     !.response = JSONError(StatusBadRequest, "token is required")]
             ELSE IF v.err
             THEN [IdlePoll EXCEPT !.pc = "return",
                     !.response = JSONError(StatusUnauthorized, "Invalid or expired token")]
             ELSE [pr EXCEPT !.pc = "acquire", !.calls = <<FetchArgs(pr)>>]]
    /\ UNCHANGED <<handlers, chans, mu, semaphore, feed, panicked, sup>>

Last(s) == s[Len(s)]

\* GetEvents lines 393-403: the request URL built from the arguments
BackendRequest(args) ==
    [channel_id |-> args.channelID, offset |-> args.offset,
     limit |-> ClampLimit(args.limit)]

\* GetEvents, the select of lines 386-391: take a permit
Acquire(p) ==
    /\ Running
    /\ poll[p].pc = "acquire"
    /\ CanAcquire
    /\ semaphore' = semaphore + 1
    /\ poll' = [poll EXCEPT ![p].pc = "send"]
    /\ UNCHANGED <<handlers, chans, mu, feed, started, panicked, sup>>

\* GetEvents called with pollCtx: its context is done at the deadline too
RequestCtxDoneAtDeadline(pr) == pr.expired \/ pr.cancelled

\* the context GetUpdates passes to GetEvents at lines 127 and 169 is
\* c.Request.Context(): it is done once the caller has gone away
RequestCtxDone(pr) == pr.cancelled

\* GetEvents, the select of lines 386-391: the caller's context is done
AcquireCanceled(p) ==
    /\ Running
    /\ poll[p].pc = "acquire"
    /\ RequestCtxDone(poll[p])
    /\ poll' = [poll EXCEPT ![p] = Returned(poll[p], FetchError("context canceled"))]
    /\ semaphore' = Release(poll[p].pc, semaphore)
    /\ UNCHANGED <<handlers, chans, mu, feed, started, panicked, sup>>

\* GetEvents, lines 393-419: clamp, build the request, hand it to the client
Send(p) ==
    /\ Running
    /\ poll[p].pc = "send"
    /\ poll' = [poll EXCEPT ![p].pc = "http",
                            ![p].reqs = Append(@, BackendRequest(Last(poll[p].calls)))]
    /\ UNCHANGED <<handlers, chans, mu, semaphore, feed, started, panicked, sup>>

\* GetEvents, lines 413-416: http.NewRequestWithContext fails
SendFails(p) ==
    /\ Running
    /\ poll[p].pc = "send"
    /\ poll' = [poll EXCEPT ![p] = Returned(poll[p], FetchError("create request"))]
    /\ semaphore' = Release(poll[p].pc, semaphore)
    /\ UNCHANGED <<handlers, chans, mu, feed, started, panicked, sup>>

\* GetEvents, lines 419-442: the backend call ends and GetEvents returns
Respond(p, r) ==
    /\ Running
    /\ poll[p].pc = "http"
    /\ poll' = [poll EXCEPT ![p] = Returned(poll[p], r)]
    /\ semaphore' = Release(poll[p].pc, semaphore)
    /\ UNCHANGED <<handlers, chans, mu, feed, started, panicked, sup>>

\* Subscribe, line 84: s.mu.Lock()
SubscribeLock(p) ==
    /\ Running
    /\ poll[p].pc = "lock_sub"
    /\ CanLock
    /\ mu' = [mu EXCEPT !.writer = TRUE]
    /\ poll' = [poll EXCEPT ![p].pc = "subscribe"]
    /\ UNCHANGED <<handlers, chans, semaphore, feed, started, panicked, sup>>

\* Subscribe, lines 87-93, then GetUpdates lines 148-151: the deferred
\* Unsubscribe is registered and the poll timer is started
Subscribe(p) ==
    /\ Running
    /\ poll[p].pc = "subscribe"
    /\ LET ch == Len(chans) + 1
       IN  /\ chans' = Append(chans, [buf |-> <<>>, closed |-> FALSE])
           /\ handlers' = SubscribeHandlers(handlers, poll[p].channelID, ch)
           /\ poll' = [poll EXCEPT ![p].pc = "wait", ![p].notifyCh = ch,
                                   ![p].timer = TRUE]
    /\ mu' = [mu EXCEPT !.writer = FALSE]
    /\ UNCHANGED <<semaphore, feed, started, panicked, sup>>

\* a wait on the request context alone, without the poll timer
PollCtxDoneOnCancelOnly(pr) == pr.cancelled

\* pollCtx is done once the timer fired or the request context was canceled
PollCtxDone(pr) == pr.expired \/ pr.cancelled

\* a deadline reported as a failure
WaitDoneFails(p) ==
    /\ Running
    /\ poll[p].pc = "wait"
    /\ PollCtxDone(poll[p])
    /\ poll' = [poll EXCEPT ![p].pc = "lock_unsub",
                            ![p].response = JSONError(StatusInternalServerError, "timeout")]
    /\ UNCHANGED <<handlers, chans, mu, semaphore, feed, started, panicked, sup>>

\* GetUpdates, lines 154-160: the select takes case <-pollCtx.Done(). A select
\* takes any one of the cases that are ready when the goroutine reaches it.
WaitDone(p) ==
    /\ Running
    /\ poll[p].pc = "wait"
    /\ PollCtxDone(poll[p])
    /\ poll' = [poll EXCEPT ![p].pc = "lock_unsub",
                            ![p].response = JSONEvents(<<>>)]
    /\ UNCHANGED <<handlers, chans, mu, semaphore, feed, started, panicked, sup>>

\* GetUpdates, lines 162-169: the select takes a notification from notifyCh
\* and GetEvents is called again
WaitNotified(p) ==
    /\ Running
    /\ poll[p].pc = "wait"
    /\ chans[poll[p].notifyCh].buf # <<>>
    /\ chans' = [chans EXCEPT ![poll[p].notifyCh].buf = Tail(@)]
    /\ poll' = [poll EXCEPT ![p].pc = "acquire",
                            ![p].taken = Append(@, Head(chans[poll[p].notifyCh].buf)),
                            ![p].expiredAtTake = poll[p].expired,
                            ![p].calls = Append(@,
                                RefetchArgs(poll[p], Head(chans[poll[p].notifyCh].buf)))]
    /\ UNCHANGED <<handlers, mu, semaphore, feed, started, panicked, sup>>

\* Unsubscribe, line 97: s.mu.Lock()
UnsubscribeLock(p) ==
    /\ Running
    /\ poll[p].pc = "lock_unsub"
    /\ CanLock
    /\ mu' = [mu EXCEPT !.writer = TRUE]
    /\ poll' = [poll EXCEPT ![p].pc = "unsubscribe"]
    /\ UNCHANGED <<handlers, chans, semaphore, feed, started, panicked, sup>>

\* Unsubscribe, lines 100-114; GetUpdates has returned after it
Unsubscribe(p) ==
    /\ Running
    /\ poll[p].pc = "unsubscribe"
    /\ LET ch == poll[p].notifyCh
           found == UnsubscribeFinds(handlers, poll[p].channelID, ch)
       IN  /\ handlers' = UnsubscribeHandlers(handlers, poll[p].channelID, ch)
           /\ chans' = IF found THEN [chans EXCEPT ![ch] = Close(@)] ELSE chans
           /\ panicked' = IF found /\ chans[ch].closed
                          THEN "close of closed channel" ELSE panicked
    /\ mu' = [mu EXCEPT !.writer = FALSE]
    /\ poll' = [poll EXCEPT ![p] = Finished(poll[p])]
    /\ UNCHANGED <<semaphore, feed, started, sup>>

\* GetUpdates returns on a path that registered no deferred call (lines 95,
\* 104, 133, 144)
Return(p) ==
    /\ Running
    /\ poll[p].pc = "return"
    /\ poll' = [poll EXCEPT ![p] = Finished(poll[p])]
    /\ UNCHANGED <<handlers, chans, mu, semaphore, feed, started, panicked, sup>>

\* the timer of context.WithTimeout(ctx, h.pollTimeout) fires
Expire(p) ==
    /\ Running
    /\ poll[p].timer
    /\ poll[p].pc \in {"wait", "acquire", "send", "http"}
    /\ ~poll[p].expired
    /\ poll' = [poll EXCEPT ![p].expired = TRUE]
    /\ UNCHANGED <<handlers, chans, mu, semaphore, feed, started, panicked, sup>>

\* the caller goes away: c.Request.Context() is canceled
Cancel(p) ==
    /\ Running
    /\ poll[p].pc \in {"acquire", "send", "http", "lock_sub", "subscribe", "wait"}
    /\ ~poll[p].cancelled
    /\ poll' = [poll EXCEPT ![p].cancelled = TRUE]
    /\ UNCHANGED <<handlers, chans, mu, semaphore, feed, started, panicked, sup>>

(* ------------------------------ feed loop ----------------------------- *)

\* the payloads the feed may carry as its n-th message
Payloads(n) ==
    {[json |-> TRUE, channel_id |-> c, event_id |-> n] : c \in Channels}
        \cup {[json |-> FALSE, channel_id |-> "", event_id |-> 0]}

\* json.Unmarshal([]byte(payload), &notification)
Unmarshal(payload) ==
    IF payload.json
    THEN [err |-> FALSE,
          notification |-> [channel_id |-> payload.channel_id,
                            event_id |-> payload.event_id]]
    ELSE [err |-> TRUE, notification |-> NoNotification]

\* handleMessage without the return of line 121: a payload that does not
\* parse is swept as the zero notification
ParsedIgnoresError(payload) ==
    [IdleFeed(feed.msgs + 1) EXCEPT !.pc = "rlock",
                                    !.notification = Unmarshal(payload).notification]

\* handleMessage lines 117-127: the feed goroutine after parsing the payload
Parsed(payload) ==
    LET u == Unmarshal(payload)
    IN  IF u.err
        THEN IdleFeed(feed.msgs + 1)
        ELSE [IdleFeed(feed.msgs + 1) EXCEPT !.pc = "rlock",
                                             !.notification = u.notification]

\* Start lines 61-70 and handleMessage lines 117-122: a message arrives
Receive(payload) ==
    /\ Running
    /\ sup.pc = "loop"
    /\ feed.pc = "recv"
    /\ feed.msgs < MaxMsgs
    /\ feed' = Parsed(payload)
    /\ UNCHANGED <<handlers, chans, mu, semaphore, poll, started, panicked, sup>>

\* the payloads of a burst of notifications for one channel
BurstPayloads(n) == {payload \in Payloads(n) : payload.json /\ payload.channel_id = "A"}

\* Start lines 61-70 and handleMessage lines 117-122: a message of a burst
\* arrives
ReceiveBurst(payload) ==
    /\ Running
    /\ sup.pc = "loop"
    /\ feed.pc = "recv"
    /\ feed.msgs < MaxBurst
    /\ feed' = Parsed(payload)
    /\ UNCHANGED <<handlers, chans, mu, semaphore, poll, started, panicked, sup>>

\* handleMessage lines 131-134: s.mu.RLock() and the read of the handler slice
SweepRLock ==
    /\ Running
    /\ feed.pc = "rlock"
    /\ CanRLock
    /\ mu' = [mu EXCEPT !.readers = @ + 1]
    /\ feed' = [feed EXCEPT !.pc = "sweep", !.i = 1,
                            !.handlers = SweepTargets(handlers, feed.notification)]
    /\ UNCHANGED <<handlers, chans, semaphore, poll, started, panicked, sup>>

\* handleMessage lines 135-141: one iteration of the range loop
SweepSend ==
    /\ Running
    /\ feed.pc = "sweep"
    /\ feed.i <= Len(feed.handlers)
    /\ SendReady(chans[feed.handlers[feed.i]])
    /\ LET handler == feed.handlers[feed.i]
           sent == TrySend(chans[handler], feed.notification)
       IN  IF chans[handler].closed
           THEN /\ panicked' = "send on closed channel"
                /\ feed' = [feed EXCEPT !.i = @ + 1]
                /\ UNCHANGED chans
           ELSE /\ chans' = [chans EXCEPT ![handler] = sent]
                /\ feed' = IF sent = chans[handler]
                            THEN [feed EXCEPT !.i = @ + 1, !.dropped = Append(@, handler)]
                            ELSE [feed EXCEPT !.i = @ + 1, !.delivered = Append(@, handler)]
                /\ UNCHANGED panicked
    /\ UNCHANGED <<handlers, mu, semaphore, poll, started, sup>>

\* handleMessage line 132: the deferred s.mu.RUnlock() once the loop is over
SweepRUnlock ==
    /\ Running
    /\ feed.pc = "sweep"
    /\ feed.i > Len(feed.handlers)
    /\ mu' = [mu EXCEPT !.readers = @ - 1]
    /\ feed' = IdleFeed(feed.msgs)
    /\ UNCHANGED <<handlers, chans, semaphore, poll, started, panicked, sup>>

(* ------------------------ reconnect supervisor ------------------------ *)

\* a doubling without the ceiling
NextBackoffUncapped(b) == 2 * b

\* backoff *= 2; if backoff > maxBackoff { backoff = maxBackoff }
NextBackoff(b) == IF 2 * b > MaxBackoff THEN MaxBackoff ELSE 2 * b

\* the supervisor after subscriber.Start returned err, "" for nil (lines
\* 141-158): a failure goes to time.Sleep, a nil error and context.Canceled
\* reset the backoff, and context.Canceled ends the goroutine
AfterStart(sv, err) ==
    IF err # "" /\ err # "context canceled"
    THEN [sv EXCEPT !.pc = "sleep", !.ctx = 0, !.fails = @ + 1,
                    !.lastReturn = "error", !.waited = FALSE]
    ELSE [sv EXCEPT !.pc = IF err = "context canceled" THEN "exited" ELSE "call",
                    !.backoff = BaseBackoff, !.ctx = 0, !.fails = 0,
                    !.lastReturn = IF err = "" THEN "closed" ELSE "canceled",
                    !.waited = FALSE]

\* part_001 line 140: subscriber.Start(context.Background()) is called and
\* derives its own context (subscriber.go line 41)
SupCall ==
    /\ Running
    /\ sup.pc = "call"
    /\ sup.starts < MaxStarts
    /\ sup' = [sup EXCEPT !.pc = "enter", !.starts = @ + 1, !.ctx = sup.starts + 1]
    /\ UNCHANGED <<handlers, chans, mu, semaphore, poll, feed, started, panicked>>

\* Start line 42: s.cancel = cancel
StartStore ==
    /\ Running
    /\ sup.pc = "enter"
    /\ sup' = [sup EXCEPT !.pc = "connect", !.cancel = sup.ctx]
    /\ UNCHANGED <<handlers, chans, mu, semaphore, poll, feed, started, panicked>>

\* Start lines 44-52: the subscription is not confirmed, Start returns the
\* error of pubsub.Receive
StartConnectFails ==
    /\ Running
    /\ sup.pc = "connect"
    /\ sup' = AfterStart(sup, "receive")
    /\ UNCHANGED <<handlers, chans, mu, semaphore, poll, feed, started, panicked>>

\* Start lines 44-52: pubsub.Receive gives up on a canceled context
StartConnectCanceled ==
    /\ Running
    /\ sup.pc = "connect"
    /\ sup.ctx \in sup.canceled
    /\ sup' = AfterStart(sup, "context canceled")
    /\ UNCHANGED <<handlers, chans, mu, semaphore, poll, feed, started, panicked>>

\* Start lines 50-56: the subscription is confirmed, the loop begins
StartConnected ==
    /\ Running
    /\ sup.pc = "connect"
    /\ sup' = [sup EXCEPT !.pc = "loop"]
    /\ UNCHANGED <<handlers, chans, mu, semaphore, poll, feed, started, panicked>>

\* Start lines 58-60: the select takes ctx.Done() and Start returns ctx.Err()
StartDone ==
    /\ Running
    /\ sup.pc = "loop"
    /\ feed.pc = "recv"
    /\ sup.ctx \in sup.canceled
    /\ sup' = AfterStart(sup, "context canceled")
    /\ UNCHANGED <<handlers, chans, mu, semaphore, poll, feed, started, panicked>>

\* Start lines 61-66: the message channel is closed, Start returns nil
StartClosed ==
    /\ Running
    /\ sup.pc = "loop"
    /\ feed.pc = "recv"
    /\ sup' = AfterStart(sup, "")
    /\ UNCHANGED <<handlers, chans, mu, semaphore, poll, feed, started, panicked>>

\* part_001 lines 145-150: time.Sleep(backoff) is over, the backoff doubles
Sleep ==
    /\ Running
    /\ sup.pc = "sleep"
    /\ sup' = [sup EXCEPT !.pc = "call", !.backoff = NextBackoff(@), !.waited = TRUE]
    /\ UNCHANGED <<handlers, chans, mu, semaphore, poll, feed, started, panicked>>

\* Subscriber.Stop, called once by OnStop (part_001 line 173): it cancels
\* the context whose cancel function s.cancel holds at that moment, if any
Stop ==
    /\ Running
    /\ ~sup.stopCalled
    /\ sup' = [sup EXCEPT !.stopCalled = TRUE,
                          !.canceled = IF sup.cancel # 0 THEN @ \cup {sup.cancel} ELSE @]
    /\ UNCHANGED <<handlers, chans, mu, semaphore, poll, feed, started, panicked>>

(* --------------------------- specification ---------------------------- *)

PollStep ==
    \/ \E p \in Polls, q \in Queries : GetUpdates(p, q)
    \/ \E p \in Polls : Acquire(p)
    \/ \E p \in Polls : AcquireCanceled(p)
    \/ \E p \in Polls : Send(p)
    \/ \E p \in Polls : SendFails(p)
    \/ \E p \in Polls, evs \in EventLists : Respond(p, Fetched(evs))
    \/ \E p \in Polls, e \in BackendErrors : Respond(p, FetchError(e))
    \/ \E p \in Polls : SubscribeLock(p)
    \/ \E p \in Polls : Subscribe(p)
    \/ \E p \in Polls : WaitDone(p)
    \/ \E p \in Polls : WaitNotified(p)
    \/ \E p \in Polls : UnsubscribeLock(p)
    \/ \E p \in Polls : Unsubscribe(p)
    \/ \E p \in Polls : Return(p)
    \/ \E p \in Polls : Expire(p)
    \/ \E p \in Polls : Cancel(p)

FeedStep ==
    \/ \E payload \in Payloads(feed.msgs + 1) : Receive(payload)
    \/ SweepRLock
    \/ SweepSend
    \/ SweepRUnlock

Next == PollStep \/ FeedStep

Spec == Init /\ [][Next]_vars

(* ------------------- the supervisor's whole run ----------------------- *)

\* the process right after OnStart launched the supervisor goroutine
SupInit ==
    /\ handlers = <<>>
    /\ chans = <<>>
    /\ mu = [writer |-> FALSE, readers |-> 0]
    /\ semaphore = 0
    /\ poll = [p \in Polls |-> IdlePoll]
    /\ feed = IdleFeed(0)
    /\ started = 0
    /\ panicked = NoPanic
    /\ sup = Unstarted

SupStep ==
    \/ SupCall
    \/ StartStore
    \/ StartConnectFails
    \/ StartConnectCanceled
    \/ StartConnected
    \/ StartDone
    \/ StartClosed
    \/ Sleep
    \/ Stop

\* the messages read while nobody listens
SupFeedStep ==
    \/ \E payload \in Payloads(feed.msgs + 1) : Receive(payload)
    \/ SweepRLock
    \/ SweepRUnlock

SupNext == SupStep \/ SupFeedStep

SupSpec == SupInit /\ [][SupNext]_vars

(* ------------------- the registry under a burst ----------------------- *)

\* the goroutine of a request for channel c whose immediate fetch came back
\* empty: GetUpdates is about to call Subscribe (line 147)
Listener(c) ==
    LET pr == [IdlePoll EXCEPT !.channelID = ValidateToken(c).channelID,
                               !.offset = ParseOffset([token |-> c]),
                               !.limit = ParseLimit([token |-> c])]
        called == [pr EXCEPT !.pc = "http", !.calls = <<FetchArgs(pr)>>,
                             !.reqs = <<BackendRequest(FetchArgs(pr))>>]
    IN  Returned(called, Fetched(<<>>))

\* every goroutine has a request whose first fetch was empty; the first one
\* listens on the channel of the burst. A listener leaves through its
\* deadline; one that took a notification is left waiting for a permit.
RegInit ==
    /\ handlers = <<>>
    /\ chans = <<>>
    /\ mu = [writer |-> FALSE, readers |-> 0]
    /\ semaphore = 0
    /\ \E c \in Channels :
          poll = [p \in Polls |-> Listener(IF p = 1 THEN "A" ELSE c)]
    /\ feed = IdleFeed(0)
    /\ started = Cardinality(Polls)
    /\ panicked = NoPanic
    /\ sup = Connected

RegPollStep ==
    \/ \E p \in Polls : SubscribeLock(p)
    \/ \E p \in Polls : Subscribe(p)
    \/ \E p \in Polls : Expire(p)
    \/ \E p \in Polls : WaitDone(p)
    \/ \E p \in Polls : WaitNotified(p)
    \/ \E p \in Polls : UnsubscribeLock(p)
    \/ \E p \in Polls : Unsubscribe(p)

RegFeedStep ==
    \/ \E payload \in BurstPayloads(feed.msgs + 1) : ReceiveBurst(payload)
    \/ SweepRLock
    \/ SweepSend
    \/ SweepRUnlock

RegNext == RegPollStep \/ RegFeedStep

RegSpec == RegInit /\ [][RegNext]_vars

\* the goroutines inside the registry keep running: a goroutine that holds
\* the write lock leaves its critical section, the feed goroutine runs its
\* sweep, and Unlock hands the lock to a blocked RLock. Nothing is assumed
\* of the listeners: they may never dequeue, and the feed may go silent.
RegFairness ==
    /\ \A p \in Polls : WF_vars(Subscribe(p)) /\ WF_vars(Unsubscribe(p))
    /\ SF_vars(SweepRLock)
    /\ WF_vars(SweepSend)
    /\ WF_vars(SweepRUnlock)

RegLive == RegSpec /\ RegFairness

(* ------------------ Unsubscribe on unregistered queues ---------------- *)

\* a free goroutine calls the exported Unsubscribe(channelID, ch) with a
\* queue that is not registered under channelID: one that was unsubscribed
\* before, one that was never subscribed, or one registered under another
\* channel. The call first waits for the write lock (line 97).
UnsubscribeCall(p, channelID, ch) ==
    /\ Running
    /\ Free(p)
    /\ ch \in 1..Len(chans)
    /\ \A i \in 1..Len(Lookup(handlers, channelID)) : handlers[channelID][i] # ch
    /\ poll' = [poll EXCEPT ![p] = [IdlePoll EXCEPT !.pc = "lock_unsub",
                                                    !.channelID = channelID,
                                                    !.notifyCh = ch]]
    /\ UNCHANGED <<handlers, chans, mu, semaphore, feed, started, panicked, sup>>

\* the listeners of RegInit, and one queue that was made and never subscribed
IdemInit ==
    /\ handlers = <<>>
    /\ chans = <<[buf |-> <<>>, closed |-> FALSE]>>
    /\ mu = [writer |-> FALSE, readers |-> 0]
    /\ semaphore = 0
    /\ \E c \in Channels :
          poll = [p \in Polls |-> Listener(IF p = 1 THEN "A" ELSE c)]
    /\ feed = IdleFeed(0)
    /\ started = Cardinality(Polls)
    /\ panicked = NoPanic
    /\ sup = Connected

IdemNext ==
    \/ RegPollStep
    \/ FeedStep
    \/ \E p \in Polls, c \in Channels, ch \in 1..Len(chans) : UnsubscribeCall(p, c, ch)

IdemSpec == IdemInit /\ [][IdemNext]_vars

(* --------------------- the limit of a backend call -------------------- *)

\* the limits a caller may ask for: around 0, around the maximum, far above
LimitInputs ==
    (0 - LimitSpan)..LimitSpan
      \cup (MaxLimit - LimitSpan)..(MaxLimit + LimitSpan)
      \cup {10 * MaxLimit}

DigitChar(d) == CHOOSE c \in Digits : DigitVal(c) = d

\* the decimal text of an integer, as a client writes it into the query
RECURSIVE Itoa(_)
Itoa(n) ==
    IF n < 0 THEN <<"-">> \o Itoa(0 - n)
    ELSE IF n < 10 THEN <<DigitChar(n)>>
    ELSE Itoa(n \div 10) \o <<DigitChar(n % 10)>>

\* values of the limit parameter that are not a decimal integer
NotANumber ==
    {<<>>, <<"x">>, <<"1", "x">>, <<"-">>, <<"+">>, <<"1", ".", "5">>,
     <<" ", "5">>, <<"5", " ">>, <<"-", "-", "1">>}

\* requests for channel "A": without a limit, with a limit that is the text
\* of an integer (with or without a plus sign), with a limit that is no number
LimitQueries ==
    {[token |-> "A"]}
      \cup {[token |-> "A", limit |-> Itoa(n)] : n \in LimitInputs}
      \cup {[token |-> "A", limit |-> <<"+">> \o Itoa(n)] : n \in LimitInputs \cap Nat}
      \cup {[token |-> "A", limit |-> g] : g \in NotANumber}

\* a goroutine inside GetEvents(ctx, "A", 0, limit), called with a limit
\* that did not go through GetUpdates
DirectCall(limit) ==
    [IdlePoll EXCEPT !.pc = "acquire",
                     !.calls = <<[channelID |-> "A", offset |-> 0, limit |-> limit]>>]

\* the first goroutine is in a GetEvents call with a limit drawn from
\* LimitInputs, the other one is free to serve a request
LimitInit ==
    /\ handlers = <<>>
    /\ chans = <<>>
    /\ mu = [writer |-> FALSE, readers |-> 0]
    /\ semaphore = 0
    /\ \E limit \in LimitInputs :
          poll = [p \in Polls |-> IF p = 1 THEN DirectCall(limit) ELSE IdlePoll]
    /\ feed = IdleFeed(0)
    /\ started = 1
    /\ panicked = NoPanic
    /\ sup = Connected

\* requests whose backend call answers with events or fails
LimitNext ==
    \/ \E p \in Polls, q \in LimitQueries : GetUpdates(p, q)
    \/ \E p \in Polls : Acquire(p)
    \/ \E p \in Polls : Send(p)
    \/ \E p \in Polls : SendFails(p)
    \/ \E p \in Polls, evs \in EventLists \ {<<>>} : Respond(p, Fetched(evs))
    \/ \E p \in Polls, e \in BackendErrors : Respond(p, FetchError(e))
    \/ \E p \in Polls : Return(p)

LimitSpec == LimitInit /\ [][LimitNext]_vars

(* ------------- a burst that begins with a malformed message ---------- *)

\* the payloads of the feed that cannot be parsed
Malformed(n) == {payload \in Payloads(n) : ~payload.json}

\* the first message of the feed is malformed, a burst follows it
SkipPayloads(n) == IF n = 1 THEN Malformed(n) ELSE BurstPayloads(n)

SkipFeedStep ==
    \/ \E payload \in SkipPayloads(feed.msgs + 1) : ReceiveBurst(payload)
    \/ SweepRLock
    \/ SweepSend
    \/ SweepRUnlock

SkipNext == RegPollStep \/ SkipFeedStep

SkipSpec == RegInit /\ [][SkipNext]_vars

(* ---------------- waiting polls and a feed that may be lost ----------- *)

\* GetUpdates from the Subscribe call on, for callers that stay connected:
\* the deadline is the only way out of a wait that nobody notifies
WaitPollStep ==
    \/ \E p \in Polls : SubscribeLock(p)
    \/ \E p \in Polls : Subscribe(p)
    \/ \E p \in Polls : Expire(p)
    \/ \E p \in Polls : WaitDone(p)
    \/ \E p \in Polls : WaitNotified(p)
    \/ \E p \in Polls : Acquire(p)
    \/ \E p \in Polls : Send(p)
    \/ \E p \in Polls : SendFails(p)
    \/ \E p \in Polls, evs \in EventLists : Respond(p, Fetched(evs))
    \/ \E p \in Polls, e \in BackendErrors : Respond(p, FetchError(e))
    \/ \E p \in Polls : UnsubscribeLock(p)
    \/ \E p \in Polls : Unsubscribe(p)

\* the feed can be lost at any moment between two messages; nothing here
\* brings it back
WaitNext == WaitPollStep \/ FeedStep \/ StartClosed

WaitSpec == RegInit /\ [][WaitNext]_vars

\* the goroutine of a request keeps running: its timer fires, its select
\* takes a ready case, its backend call ends (the http client has a
\* timeout), the semaphore and the write lock are handed over to it, and a
\* goroutine inside the registry leaves it. Nothing is assumed of the
\* arrival of messages nor of the supervisor.
WaitFairness ==
    /\ \A p \in Polls :
          /\ WF_vars(Expire(p))
          /\ WF_vars(WaitDone(p))
          /\ SF_vars(Acquire(p))
          /\ WF_vars(Send(p))
          /\ WF_vars(\E evs \in EventLists : Respond(p, Fetched(evs)))
          /\ WF_vars(Subscribe(p))
          /\ SF_vars(UnsubscribeLock(p))
          /\ WF_vars(Unsubscribe(p))
    /\ WF_vars(SweepSend)
    /\ WF_vars(SweepRUnlock)

WaitLive == WaitSpec /\ WaitFairness

(* ------------------------------- claims ------------------------------- *)

\* goroutines of GetUpdates between Subscribe and the end of Unsubscribe
Registered(p) ==
    poll[p].pc \in {"wait", "acquire", "send", "http", "lock_unsub", "unsubscribe"}
        /\ poll[p].notifyCh # 0

\* GetUpdates has written its response and has not returned yet
Responded(p) == poll[p].pc \in {"return", "lock_unsub", "unsubscribe"}

\* every queue of the registry, with the channel it is registered under
Registrations ==
    UNION {{<<c, handlers[c][i]>> : i \in 1..Len(handlers[c])} : c \in DOMAIN handlers}

\* C1: under every interleaving of delivery sweeps with Subscribe and
\* Unsubscribe, the sweep never sends on a closed queue: every queue the
\* running sweep still has to visit is open and still registered, and the
\* send-on-closed-channel panic is unreachable.
C1_NoSendAfterUnsubscribe ==
    /\ panicked # "send on closed channel"
    /\ feed.pc = "sweep" =>
         \A j \in feed.i..Len(feed.handlers) :
            /\ ~chans[feed.handlers[j]].closed
            /\ <<feed.notification.channel_id, feed.handlers[j]>> \in Registrations

\* a sweep is about to send on a queue whose owner is blocked in Unsubscribe
C1_Witness ==
    /\ feed.pc = "sweep"
    /\ feed.i <= Len(feed.handlers)
    /\ \E p \in Polls :
         poll[p].pc = "lock_unsub" /\ poll[p].notifyCh = feed.handlers[feed.i]

\* C2: at most Workers backend requests are in flight through GetEvents,
\* whatever the number of concurrent polls.
C2_InFlightBounded == Cardinality(InFlight) <= Workers

\* every permit is in use by a backend request and another call waits for one
C2_Witness ==
    /\ Cardinality(InFlight) = Workers
    /\ \E p \in Polls : poll[p].pc = "acquire"

\* C3: a registration lives no longer than the GetUpdates call that created
\* it: every queue in the registry is the queue of a call that has not yet
\* returned, and the registry is empty when no poll is in flight.
C3_RegistrationRemoved ==
    /\ \A reg \in Registrations :
         \E p \in Polls :
            Registered(p) /\ poll[p].notifyCh = reg[2] /\ poll[p].channelID = reg[1]
    /\ (\A p \in Polls : Free(p)) => handlers = <<>>

\* every request was served, one of them through a registration, none is left
C3_Witness ==
    /\ started = MaxRequests
    /\ \A p \in Polls : Free(p)
    /\ \E i \in 1..Len(chans) : chans[i].closed
    /\ handlers = <<>>

\* C4: the permits held are exactly those of the GetEvents calls in progress
\* past the acquisition, so every exit path has released its permit, no
\* permit is held when no call is in progress, and a call that never acquired
\* one has released none.
C4_PermitsReleased ==
    /\ semaphore = Cardinality({p \in Polls : HoldsPermit(p)})
    /\ (\A p \in Polls : ~InGetEvents(p)) => semaphore = 0

\* a call left through the request-construction error and no permit is held
C4_Witness ==
    /\ semaphore = 0
    /\ \E p \in Polls :
         /\ Responded(p)
         /\ poll[p].results # <<>>
         /\ Last(poll[p].results).err = "create request"

\* C5: a poll whose immediate fetch returned events answers with exactly that
\* list at once: it made one GetEvents call, never subscribed and started no
\* deadline timer.
C5_ImmediateShortCircuit ==
    \A p \in Polls :
        (poll[p].results # <<>> /\ poll[p].results[1].err = ""
            /\ poll[p].results[1].events # <<>>) =>
          /\ poll[p].pc = "return"
          /\ poll[p].response = JSONEvents(poll[p].results[1].events)
          /\ Len(poll[p].calls) = 1
          /\ poll[p].notifyCh = 0
          /\ ~poll[p].timer
          /\ \A reg \in Registrations :
                \E o \in Polls \ {p} : poll[o].notifyCh = reg[2]

\* a poll answered with the three events of its immediate fetch
C5_Witness ==
    \E p \in Polls :
        /\ poll[p].pc = "return"
        /\ poll[p].results = <<Fetched(<<5, 6, 7>>)>>
        /\ poll[p].response.events = <<5, 6, 7>>

\* the response GetUpdates writes for the result r of a refetch
RefetchResponse(r) ==
    IF r.err # ""
    THEN JSONError(StatusInternalServerError, "Failed to fetch events")
    ELSE JSONEvents(r.events)

\* the deadline of p elapsed before p took any notification from its queue
DeadlineFirst(p) ==
    /\ poll[p].timer
    /\ poll[p].expired
    /\ poll[p].taken = <<>> \/ poll[p].expiredAtTake

\* C6 as stated: a poll whose deadline elapsed before any notification was
\* taken from its queue answers 200 with an empty event list (stated here
\* for the polls whose caller never canceled, which the claim includes).
C6_DeadlineBeforeTakeIsEmpty ==
    \A p \in Polls :
        (Responded(p) /\ DeadlineFirst(p) /\ ~poll[p].cancelled) =>
            poll[p].response = JSONEvents(<<>>)

\* C6, amended: a poll whose deadline elapsed and which took no notification
\* from its queue answers 200 with an empty event list, never an error; it
\* made the one GetEvents call of the immediate check.
C6_DeadlineWithoutTakeIsEmpty ==
    \A p \in Polls :
        (Responded(p) /\ poll[p].timer /\ poll[p].expired /\ poll[p].taken = <<>>) =>
          /\ poll[p].response = JSONEvents(<<>>)
          /\ Len(poll[p].calls) = 1

\* the deadline of a poll that nobody canceled elapsed with its queue empty
C6_Witness ==
    \E p \in Polls :
        /\ poll[p].pc = "lock_unsub"
        /\ poll[p].expired
        /\ ~poll[p].cancelled
        /\ poll[p].taken = <<>>
        /\ chans[poll[p].notifyCh].buf = <<>>
        /\ poll[p].response.status = StatusOK

\* C7: once a GetEvents call of a poll has failed, the poll answers with the
\* failure status: the failed call is its last call (no retry), and the
\* response is the 500 error, never a 200.
C7_FetchFailurePropagates ==
    \A p \in Polls :
        \A i \in 1..Len(poll[p].results) :
            poll[p].results[i].err # "" =>
              /\ i = Len(poll[p].results)
              /\ Len(poll[p].calls) = i
              /\ Responded(p)
              /\ poll[p].response =
                    JSONError(StatusInternalServerError, "Failed to fetch events")

\* the refetch after a notification failed
C7_Witness ==
    \E p \in Polls :
        /\ Len(poll[p].results) = 2
        /\ poll[p].results[2].err # ""
        /\ poll[p].response.status = StatusInternalServerError

\* C8: a poll that took a notification has taken exactly one, made exactly
\* one further GetEvents call with the arguments of the first, is never back
\* in the wait, and answers with that call's result, empty or not.
C8_NotifiedRefetchesOnce ==
    \A p \in Polls :
        poll[p].taken # <<>> =>
          /\ Len(poll[p].taken) = 1
          /\ Len(poll[p].calls) = 2
          /\ poll[p].calls[2] = poll[p].calls[1]
          /\ \A i \in 1..Len(poll[p].reqs) : poll[p].reqs[i] = BackendRequest(poll[p].calls[1])
          /\ poll[p].pc \in {"acquire", "send", "http", "lock_unsub", "unsubscribe"}
          /\ Len(poll[p].results) = 2 <=> Responded(p)
          /\ Responded(p) => poll[p].response = RefetchResponse(poll[p].results[2])

\* a notified poll answered with the empty page its refetch returned
C8_Witness ==
    \E p \in Polls :
        /\ poll[p].taken # <<>>
        /\ Responded(p)
        /\ poll[p].results = <<Fetched(<<>>), Fetched(<<>>)>>
        /\ poll[p].response = JSONEvents(<<>>)
        /\ poll[p].offset # 0

\* how often notification n is in queue q or was taken from it by its owner
Copies(q, n) ==
    Cardinality({i \in 1..Len(chans[q].buf) : chans[q].buf[i] = n})
      + Cardinality({<<p, i>> \in Polls \X (1..MaxMsgs) :
            /\ poll[p].notifyCh = q
            /\ i <= Len(poll[p].taken)
            /\ poll[p].taken[i] = n})

SweepOver == feed.pc = "sweep" /\ feed.i > Len(feed.handlers)

\* C9: when the sweep of one notification for channel c is over and it found
\* no queue full, it has enqueued on every queue registered under c, once
\* each, and each of these queues got exactly one copy of the notification.
C9_FanOutToEveryListener ==
    (SweepOver /\ feed.dropped = <<>>) =>
      /\ feed.delivered = Lookup(handlers, feed.notification.channel_id)
      /\ \A reg \in Registrations :
            reg[1] = feed.notification.channel_id =>
               Copies(reg[2], feed.notification) = 1

\* one notification was delivered to two listeners of one channel
C9_Witness ==
    /\ SweepOver
    /\ feed.dropped = <<>>
    /\ Len(feed.delivered) = 2
    /\ Len(Lookup(handlers, feed.notification.channel_id)) = 2

\* C10: a queue only ever holds, and a poll only ever takes, notifications
\* of the channel the queue is registered under, and a sweep enqueues on no
\* queue of another channel.
C10_ChannelIsolation ==
    /\ \A reg \in Registrations :
          \A i \in 1..Len(chans[reg[2]].buf) :
              chans[reg[2]].buf[i].channel_id = reg[1]
    /\ \A p \in Polls :
          \A i \in 1..Len(poll[p].taken) :
              poll[p].taken[i].channel_id = poll[p].channelID
    /\ \A i \in 1..Len(feed.delivered) :
          <<feed.notification.channel_id, feed.delivered[i]>> \in Registrations

\* a notification for one channel was delivered while a poll waits on another
C10_Witness ==
    /\ feed.delivered # <<>>
    /\ \E p \in Polls :
          /\ poll[p].pc = "wait"
          /\ poll[p].channelID # feed.notification.channel_id
          /\ chans[poll[p].notifyCh].buf = <<>>

\* the queue the running sweep visits next
SweepHandler == feed.handlers[feed.i]

\* the running sweep is at a registration whose queue holds its full capacity
AtFullQueue ==
    /\ feed.pc = "sweep"
    /\ feed.i <= Len(feed.handlers)
    /\ Len(chans[SweepHandler].buf) = QueueCap

\* the running sweep is at a registration whose queue has room
AtQueueWithRoom ==
    /\ feed.pc = "sweep"
    /\ feed.i <= Len(feed.handlers)
    /\ Len(chans[SweepHandler].buf) < QueueCap

\* the feed goroutine takes the step of the sweep it is at
SweepStep == feed'.i = feed.i + 1 /\ feed'.pc = "sweep"

\* no queue ever holds more than its capacity
QueuesBounded == \A q \in 1..Len(chans) : Len(chans[q].buf) <= QueueCap

\* the sweep step at a full queue changes no queue, raises no error and moves
\* on to the next registration
DropStep ==
    (AtFullQueue /\ SweepStep) =>
        /\ chans' = chans
        /\ panicked' = panicked
        /\ feed'.dropped = Append(feed.dropped, SweepHandler)
        /\ feed'.delivered = feed.delivered

\* the sweep step at a queue with room appends the notification to it, also
\* after a drop earlier in the same sweep
DeliverStep ==
    (AtQueueWithRoom /\ SweepStep) =>
        /\ chans' = [chans EXCEPT ![SweepHandler].buf = Append(@, feed.notification)]
        /\ panicked' = panicked
        /\ feed'.delivered = Append(feed.delivered, SweepHandler)

\* C11: a sweep that reaches a registration whose queue holds its full
\* capacity of 10 drops the notification for that registration only: the
\* queue keeps its contents and their order, no queue ever exceeds the
\* capacity, the registrations with room still get the notification, also
\* after the drop, and no error is raised.
C11_FullQueueDrops == []QueuesBounded /\ [][DropStep /\ DeliverStep]_vars

\* a sweep dropped the notification for a full queue and delivered it to
\* another listener of the same channel
C11_Witness ==
    /\ SweepOver
    /\ \E q \in 1..Len(chans) :
          /\ feed.dropped = <<q>>
          /\ Len(chans[q].buf) = QueueCap
          /\ chans[q].buf[1].event_id = 1
    /\ Len(feed.delivered) = 1
    /\ Last(chans[feed.delivered[1]].buf) = feed.notification

\* the feed goroutine is inside handleMessage
InSweep == feed.pc \in {"rlock", "sweep"}

\* C12: every delivery sweep terminates and the feed loop is back at its
\* receive, whatever the listeners do: no fairness is assumed of them, so
\* they may never dequeue and every queue may be full.
C12_SweepTerminates == InSweep ~> feed.pc = "recv"

\* the feed loop is back at its receive after the last message of a burst
\* that left every registered queue full
C12_Witness ==
    /\ feed.pc = "recv"
    /\ feed.msgs = MaxBurst
    /\ Registrations # {}
    /\ \A reg \in Registrations : Len(chans[reg[2]].buf) = QueueCap

\* the step is a call of subscriber.Start
StartIsCalled == sup'.starts # sup.starts

\* C13: an explicit Stop is terminal: once Stop() has been called, at
\* whatever moment of the supervisor's run, Start is never invoked again.
C13_StopIsTerminal == [][sup.stopCalled => ~StartIsCalled]_vars

\* C14: after Start returned because the message channel closed, the
\* supervisor calls Start again only after a backoff wait.
C14_BackoffBeforeReconnect ==
    [][(StartIsCalled /\ sup.lastReturn = "closed") => sup.waited]_vars

Min(a, b) == IF a < b THEN a ELSE b

\* C15: the backoff interval is never below the base (1s) nor above the
\* ceiling (60s); the wait after the k-th consecutive failed attempt is
\* min(base * 2^(k-1), ceiling), the interval doubles (up to the ceiling)
\* with each wait, and it is the base whenever no attempt has failed since
\* the last Start call that connected.
C15_BackoffSchedule ==
    /\ BaseBackoff <= sup.backoff /\ sup.backoff <= MaxBackoff
    /\ sup.pc = "sleep" =>
          /\ sup.fails >= 1
          /\ sup.backoff = Min(BaseBackoff * 2 ^ (sup.fails - 1), MaxBackoff)
    /\ sup.pc # "sleep" =>
          sup.backoff = Min(BaseBackoff * 2 ^ sup.fails, MaxBackoff)
    /\ (sup.lastReturn \in {"closed", "canceled"} /\ sup.fails = 0) =>
          sup.backoff = BaseBackoff

\* the supervisor sleeps the ceiling after its eighth consecutive failure,
\* where the doubled interval would be 128s
C15_Witness ==
    /\ sup.pc = "sleep"
    /\ sup.fails = 8
    /\ sup.backoff = MaxBackoff

\* p is in the wait of GetUpdates with its caller gone, its deadline not
\* elapsed and no notification taken
CanceledInWait(p) ==
    /\ poll[p].pc = "wait"
    /\ poll[p].cancelled
    /\ ~poll[p].expired

\* p leaves the wait without taking a notification
LeavesWait(p) == poll[p].pc = "wait" /\ poll'[p].pc = "lock_unsub"

\* C16: a poll that leaves the wait because its caller canceled is abandoned
\* and produces no response, unlike the deadline, which produces a
\* successful empty response.
C16_CancelProducesNoResponse ==
    [][\A p \in Polls :
          (CanceledInWait(p) /\ LeavesWait(p)) => poll'[p].response = NoResponse]_vars

\* a GetEvents call of p got its permit and failed
BackendCallFailed(p) ==
    \E i \in 1..Len(poll[p].results) :
        poll[p].results[i].err \in BackendErrors \cup {"create request"}

\* C17: the outcomes of a poll are never conflated: a failure response only
\* follows a failed backend call (so never a cancellation while waiting for
\* a permit), a successful empty response only follows the deadline or a
\* refetch that returned no events, and an auth failure only follows a
\* failed token validation.
C17_OutcomesNotConflated ==
    \A p \in Polls :
        Responded(p) =>
          /\ poll[p].response.status = StatusInternalServerError =>
                BackendCallFailed(p)
          /\ poll[p].response = JSONEvents(<<>>) =>
                \/ poll[p].expired
                \/ Len(poll[p].results) = 2 /\ poll[p].results[2] = Fetched(<<>>)
          /\ poll[p].response.status = StatusUnauthorized =>
                poll[p].calls = <<>> /\ poll[p].channelID = ""

\* the queues Subscribe returned to a GetUpdates call whose deferred
\* Unsubscribe has not completed, with their channels
Live == {<<poll[p].channelID, poll[p].notifyCh>> : p \in {o \in Polls : Registered(o)}}

\* C18: the registry holds exactly the live queues, each under the channel
\* it was subscribed for: a queue is registered iff Subscribe returned it and
\* its Unsubscribe has not completed; every registered queue is open, and it
\* appears under one channel only and once.
C18_RegistryIsLiveSet ==
    /\ Registrations = Live
    /\ \A reg \in Registrations : ~chans[reg[2]].closed
    /\ \A q \in 1..Len(chans) :
          chans[q].closed => \A reg \in Registrations : reg[2] # q
    /\ \A c1 \in DOMAIN handlers, c2 \in DOMAIN handlers :
          \A i \in 1..Len(handlers[c1]), j \in 1..Len(handlers[c2]) :
              handlers[c1][i] = handlers[c2][j] => (c1 = c2 /\ i = j)

\* one queue was unsubscribed and closed while the owner of a registered
\* queue has called Unsubscribe and waits for the lock
C18_Witness ==
    /\ \E q \in 1..Len(chans) : chans[q].closed
    /\ \E p \in Polls :
          /\ poll[p].pc = "lock_unsub"
          /\ <<poll[p].channelID, poll[p].notifyCh>> \in Registrations

\* the step is the return of Subscribe to p, of Unsubscribe to p
SubscribeReturns(p) == poll[p].pc = "subscribe" /\ poll'[p].pc = "wait"
UnsubscribeReturns(p) == poll[p].pc = "unsubscribe" /\ poll'[p].pc = "done"

\* the queues made before the step other than q are what they were
OthersUntouched(q) ==
    \A o \in 1..Len(chans) : o # q => chans'[o] = chans[o]

\* the registry entries of the channels other than c are what they were
OtherChannelsUntouched(c) ==
    /\ DOMAIN handlers' \ {c} = DOMAIN handlers \ {c}
    /\ \A d \in DOMAIN handlers \ {c} : handlers'[d] = handlers[d]

\* C19, Subscribe: the queue returned is new, open, empty and distinct from
\* every queue made before; it is added to the registry and nothing else is.
SubscribeFrame ==
    \A p \in Polls :
        SubscribeReturns(p) =>
          LET q == poll'[p].notifyCh
          IN  /\ q \notin 1..Len(chans)
              /\ chans'[q] = [buf |-> <<>>, closed |-> FALSE]
              /\ Registrations' = Registrations \cup {<<poll[p].channelID, q>>}
              /\ OthersUntouched(q)
              /\ OtherChannelsUntouched(poll[p].channelID)

\* C19, Unsubscribe(c, q): q is closed and removed, every other registration
\* of c and of the other channels stays registered, in its order, open and
\* with the queue contents it had.
UnsubscribeFrame ==
    \A p \in Polls :
        UnsubscribeReturns(p) =>
          LET q == poll[p].notifyCh
              c == poll[p].channelID
          IN  /\ chans'[q].closed
              /\ Registrations' = Registrations \ {<<c, q>>}
              /\ OthersUntouched(q)
              /\ OtherChannelsUntouched(c)
              /\ Lookup(handlers', c) =
                    RemoveAt(Lookup(handlers, c), IndexOf(Lookup(handlers, c), q))

\* C19: concurrent polls on one channel are independent: Subscribe returns a
\* fresh queue and Unsubscribe(c, q) removes and closes only q.
C19_RegistrationsIndependent == [][SubscribeFrame /\ UnsubscribeFrame]_vars

\* the first of two listeners was unsubscribed; the second is still waiting,
\* registered, with the notification it was sent in its queue
C19_Witness ==
    /\ Len(chans) = 2
    /\ chans[1].closed
    /\ \E p \in Polls :
          /\ poll[p].pc = "wait"
          /\ poll[p].notifyCh = 2
          /\ handlers = MapSet(<<>>, poll[p].channelID, <<2>>)
          /\ Len(chans[2].buf) = 1

\* C20: every poll that has entered the wait completes, whether or not the
\* feed delivers anything: no fairness is assumed of the receive of messages
\* nor of the supervisor, and the feed may be disconnected for good.
C20_WaitingPollCompletes ==
    \A p \in Polls : (poll[p].pc = "wait") ~> (poll[p].pc = "done")

\* the feed was lost before it delivered anything and was not reconnected; a
\* poll has completed through its deadline with the empty response
C20_Witness ==
    /\ sup.pc = "call"
    /\ sup.lastReturn = "closed"
    /\ feed.msgs = 0
    /\ \E p \in Polls :
          /\ poll[p].pc = "done"
          /\ poll[p].response = JSONEvents(<<>>)

\* the GetEvents call of p waits for a permit, all of them are held by other
\* calls and the caller of p is gone
CanceledWhileExhausted(p) ==
    /\ poll[p].pc = "acquire"
    /\ poll[p].cancelled
    /\ semaphore = Workers
    /\ ~HoldsPermit(p)

\* the step is the return of the GetEvents call of p
GetEventsReturns(p) == Len(poll'[p].results) = Len(poll[p].results) + 1

\* C21: a GetEvents call whose caller is canceled while all permits are held
\* by other calls never gets a permit; when it returns it returns the
\* context's error, no backend request was issued for it and the number of
\* held permits is what it was.
C21_CanceledWithoutPermit ==
    [][\A p \in Polls :
          CanceledWhileExhausted(p) =>
            /\ poll'[p].pc \notin {"send", "http"}
            /\ GetEventsReturns(p) =>
                  /\ Last(poll'[p].results) = FetchError("context canceled")
                  /\ poll'[p].reqs = poll[p].reqs
                  /\ Len(poll'[p].reqs) < Len(poll'[p].calls)
                  /\ semaphore' = semaphore
                  /\ \A o \in Polls \ {p} : HoldsPermit(o)' = HoldsPermit(o)]_vars

\* a call returned the cancellation error while another call holds the
\* only permit
C21_Witness ==
    /\ semaphore = Workers
    /\ \E p \in Polls :
          /\ Responded(p)
          /\ poll[p].results # <<>>
          /\ Last(poll[p].results) = FetchError("context canceled")
          /\ Len(poll[p].reqs) < Len(poll[p].calls)
          /\ \E o \in Polls \ {p} : poll[o].pc = "http"

\* whatever malformed payload arrives next, handleMessage returns at once:
\* the feed goroutine is back at the receive with nothing to deliver
MalformedIsSkipped ==
    feed.pc = "recv" =>
        \A payload \in Malformed(feed.msgs + 1) :
            Parsed(payload) = IdleFeed(feed.msgs + 1)

\* the step is the receive of a message that handleMessage gave up on: the
\* first message of the feed, which is malformed, or any message after which
\* the feed goroutine is back at the receive at once
SkipStep ==
    /\ feed'.msgs = feed.msgs + 1
    /\ feed.msgs = 0 \/ feed'.pc = "recv"

\* a skipped message changes no registration, no queue and no listener, and
\* leaves the loop of Start running at its receive
SkipFrame ==
    SkipStep =>
        /\ feed' = IdleFeed(feed.msgs + 1)
        /\ handlers' = handlers
        /\ chans' = chans
        /\ mu' = mu
        /\ poll' = poll
        /\ panicked' = panicked
        /\ sup' = sup
        /\ sup.pc = "loop"

\* C22: a feed message whose payload cannot be parsed is skipped: it changes
\* no registration and no queue, delivers nothing to any listener, and the
\* feed loop goes on with the following messages.
C22_MalformedSkipped == []MalformedIsSkipped /\ [][SkipFrame]_vars

\* the message that followed the malformed first message was delivered to a
\* listener
C22_Witness ==
    /\ feed.msgs = 2
    /\ SweepOver
    /\ feed.delivered # <<>>
    /\ \A q \in 1..Len(feed.delivered) :
          Last(chans[feed.delivered[q]].buf).event_id = 2

\* the limit GetUpdates must derive from the text of an integer
LimitOf(n) == Min(IF n < 1 THEN DefaultLimit ELSE n, MaxLimit)

\* GetUpdates derives the limit the claim states from every query
LimitDerived ==
    /\ ParseLimit([token |-> "A"]) = Min(DefaultLimit, MaxLimit)
    /\ \A g \in NotANumber :
          ParseLimit([token |-> "A", limit |-> g]) = Min(DefaultLimit, MaxLimit)
    /\ \A n \in LimitInputs :
          ParseLimit([token |-> "A", limit |-> Itoa(n)]) = LimitOf(n)
    /\ \A n \in LimitInputs \cap Nat :
          ParseLimit([token |-> "A", limit |-> <<"+">> \o Itoa(n)]) = LimitOf(n)

\* the GetEvents calls of goroutine p were made by GetUpdates with its locals
ThroughGetUpdates(p) ==
    /\ poll[p].calls # <<>>
    /\ poll[p].calls[1] = FetchArgs(poll[p])

\* every request sent to the backend carries min(requested, M), and one that
\* entered through GetUpdates carries a limit within [1, M]
LimitSent ==
    \A p \in Polls :
        /\ Len(poll[p].reqs) <= Len(poll[p].calls)
        /\ \A i \in 1..Len(poll[p].reqs) :
              /\ poll[p].reqs[i].limit = Min(poll[p].calls[i].limit, MaxLimit)
              /\ ThroughGetUpdates(p) => poll[p].reqs[i].limit \in 1..MaxLimit
        /\ ThroughGetUpdates(p) => poll[p].limit \in 1..MaxLimit

\* C23: for every requested limit the limit GetEvents sends to the backend
\* is min(requested, M); GetUpdates replaces a missing, unparsable or
\* below-1 limit by 100 before clamping, so its backend calls carry a limit
\* within [1, M].
C23_LimitClamped == LimitDerived /\ LimitSent

\* a direct call asked for more than the maximum and a request that came
\* through GetUpdates carries the default: both backend requests were sent
C23_Witness ==
    /\ poll[1].reqs # <<>>
    /\ poll[1].calls[1].limit > MaxLimit
    /\ poll[1].reqs[1].limit = MaxLimit
    /\ poll[2].reqs # <<>>
    /\ ThroughGetUpdates(2)
    /\ poll[2].reqs[1].limit = DefaultLimit

\* the channels some GetUpdates call holds a registration for
LiveChannels == {reg[1] : reg \in Live}

\* C24: the registry has no entry with an empty registration set: a
\* channelID is a key of the registry iff a live registration exists for it.
C24_NoEmptyEntry ==
    /\ \A c \in DOMAIN handlers : handlers[c] # <<>>
    /\ DOMAIN handlers = LiveChannels

\* two registrations were made and both were removed: the registry is empty
C24_Witness ==
    /\ Len(chans) = 2
    /\ \A q \in 1..Len(chans) : chans[q].closed
    /\ DOMAIN handlers = {}

\* a notification for the channel of p has been swept since the immediate
\* fetch of p came back empty: every listener of the burst starts right after
\* its empty immediate fetch and every message of the burst is for channel "A"
SweptSinceImmediate(p) ==
    /\ poll[p].channelID = "A"
    /\ feed.msgs >= 2 \/ (feed.msgs = 1 /\ feed.pc = "recv")

\* the step is the select of p taking the deadline: the empty timeout
EndsEmptyAtDeadline(p) ==
    /\ poll[p].pc = "wait"
    /\ poll'[p].pc = "lock_unsub"
    /\ poll'[p].response = JSONEvents(<<>>)

\* C25: no wake-up is lost between the immediate check and registration: a
\* poll for whose channel a notification was swept after its immediate fetch
\* returned empty does not end at its deadline with an empty result. Stated
\* for the polls whose queue is empty at the deadline, so that the select had
\* no notification it could have taken.
C25_NoLostWakeup ==
    [][\A p \in Polls :
          (/\ SweptSinceImmediate(p)
           /\ poll[p].pc = "wait"
           /\ chans[poll[p].notifyCh].buf = <<>>) => ~EndsEmptyAtDeadline(p)]_vars

\* p is in the GetEvents call of the immediate check, of the refetch
InImmediateFetch(p) == InGetEvents(p) /\ Len(poll[p].calls) = 1
InRefetch(p) == InGetEvents(p) /\ Len(poll[p].calls) = 2

\* the timer of the poll runs only once the immediate fetch has returned and
\* Subscribe has registered the queue; it cannot fire before it runs
TimerStartsAfterSubscribe ==
    \A p \in Polls :
        /\ poll[p].timer =>
              /\ poll[p].results # <<>>
              /\ poll[p].results[1] = Fetched(<<>>)
              /\ poll[p].notifyCh # 0
              /\ ~InImmediateFetch(p)
        /\ poll[p].expired => poll[p].timer

\* a refetch whose caller is still there goes on after the deadline: no step
\* ends it with a cancellation, and the step that ends it answers with what
\* the backend call returned
RefetchIgnoresDeadline ==
    \A p \in Polls :
        (InRefetch(p) /\ poll[p].expired /\ ~poll[p].cancelled /\ ~poll'[p].cancelled) =>
            \/ InRefetch(p)' /\ poll'[p].results = poll[p].results
            \/ /\ GetEventsReturns(p)
               /\ Last(poll'[p].results) # FetchError("context canceled")
               /\ poll'[p].pc = "lock_unsub"
               /\ poll'[p].response = RefetchResponse(Last(poll'[p].results))

\* C26: the poll deadline bounds only the wait for a notification: the timer
\* starts after the immediate fetch and Subscribe, and a deadline that elapses
\* during the refetch does not end the refetch nor change its outcome.
C26_DeadlineBoundsWaitOnly ==
    []TimerStartsAfterSubscribe /\ [][RefetchIgnoresDeadline]_vars

\* the deadline elapsed after the notification was taken, during the refetch,
\* and the poll answered with the events of the refetch
C26_Witness ==
    \E p \in Polls :
        /\ Responded(p)
        /\ poll[p].taken # <<>>
        /\ poll[p].expired
        /\ ~poll[p].expiredAtTake
        /\ ~poll[p].cancelled
        /\ poll[p].response = JSONEvents(<<5, 6, 7>>)

\* p is inside Unsubscribe(c, q), holding the lock, and q is not registered
\* under c
UnsubscribesUnknown(p) ==
    /\ poll[p].pc = "unsubscribe"
    /\ <<poll[p].channelID, poll[p].notifyCh>> \notin Registrations

\* an Unsubscribe of a queue that is not registered under the channel
\* changes no registration and no queue, and closes nothing
UnknownIsNoOp ==
    \A p \in Polls :
        (UnsubscribesUnknown(p) /\ UnsubscribeReturns(p)) =>
            /\ handlers' = handlers
            /\ chans' = chans
            /\ panicked' = panicked
            /\ mu' = [mu EXCEPT !.writer = FALSE]

\* C27: Unsubscribe is idempotent and safe on unknown queues: a call for a
\* queue not registered under the channel leaves the registry and all queues
\* unchanged and closes nothing, and no queue is ever closed twice.
C27_UnsubscribeIdempotent ==
    [](panicked # "close of closed channel") /\ [][UnknownIsNoOp]_vars

\* an Unsubscribe call for a queue that was not registered has returned
\* (only such a call ends without a response): a queue was unsubscribed and
\* closed, another one is still registered, and the queue that was never
\* subscribed is open
C27_Witness ==
    \E p \in Polls :
        /\ poll[p].pc = "done"
        /\ poll[p].response = NoResponse
        /\ Len(chans) = 3
        /\ ~chans[1].closed
        /\ \E q \in 2..3 : chans[q].closed
        /\ DOMAIN handlers # {}

====
